---- MODULE Spec2Model ----
(***************************************************************************)
(* Model of the query2 revelation layer                                    *)
(* (mr-plonky2-circuits/src/query2/revelation/mod.rs):                     *)
(*   - RevelationRecursiveInput::new, the host-side input assembler that   *)
(*     canonicalizes the mapping keys and deserializes the two sub-proofs; *)
(*   - Parameters::build / generate_proof / verify_proof.                  *)
(* Option<T> and Result payloads are sequences of length 0 or 1.           *)
(***************************************************************************)
EXTENDS Integers, Sequences, FiniteSets

VARIABLES
    L,          \* the const generic L of the instantiation under study
    request,    \* arguments of one RevelationRecursiveInput::new call
    assembled,  \* <<>> before the call, then <<its outcome>>
    recanon,    \* <<>>, then <<outcome of new on the canonical keys>>
    reordered,  \* <<>>, then <<the keys in another order, outcome of new on them>>
    params,     \* <<>> before build, then <<Parameters>>
    calls,      \* per call slot: position, inputs, locals and result
    pw          \* the PartialWitness objects, by witness slot

vars == <<L, request, assembled, recanon, reordered, params, calls, pw>>

----------------------------------------------------------------------------
(* Sizes *)

\* bytes of a padded mapping key (left_pad32)
MAPPING_KEY_LEN == 32

\* u32 limbs of a packed mapping key
PACKED_MAPPING_KEY_LEN == 8

\* width of RevelationCircuit::num_entries (u8)
NUM_ENTRIES_BITS == 8

\* longest key list enumerated exhaustively
MaxKeys == 3

\* the instantiations of L: the unit test's, the groth16 test's, and one
\* beyond the range of the u8 occupancy
Capacities == {2, 5, 256}

Pow2(n) == 2 ^ n

----------------------------------------------------------------------------
(* Keys: left_pad32, Packer::pack *)

\* eth::left_pad32: the key right-aligned in 32 bytes, zeros in front
left_pad32(key) ==
    [i \in 1..MAPPING_KEY_LEN |->
        IF i <= MAPPING_KEY_LEN - Len(key) THEN 0
        ELSE key[i - (MAPPING_KEY_LEN - Len(key))]]

\* utils::Packer::pack for bytes: one little-endian u32 per 4 bytes
pack(bytes) ==
    [j \in 1..(Len(bytes) \div 4) |->
        bytes[4 * j - 3] + 256 * bytes[4 * j - 2]
          + 65536 * bytes[4 * j - 1] + 16777216 * bytes[4 * j]]

\* the bytes of a packed key (the inverse of pack), to feed a canonical key
\* back to the assembler
unpack(packed) ==
    [i \in 1..(4 * Len(packed)) |->
        (packed[(i + 3) \div 4] \div Pow2(8 * ((i - 1) % 4))) % 256]

ZeroKey == [j \in 1..PACKED_MAPPING_KEY_LEN |-> 0]

Last(s) == s[Len(s)]

\* raw keys used as inputs: the zero key, two keys whose final limbs order
\* opposite to their big-endian values, and two keys that share a final limb
\* with another key of the pool
K0 == <<>>
K1 == <<1>>
K256 == <<1, 0>>
K0hi == <<1, 0, 0, 0, 0>>
K1hi == <<2, 0, 0, 0, 1>>

KeyPool == {K0, K1, K256, K0hi, K1hi}

RECURSIVE SeqsUpTo(_, _)
SeqsUpTo(S, n) ==
    IF n = 0 THEN {<<>>}
    ELSE LET shorter == SeqsUpTo(S, n - 1)
         IN  shorter \cup {Append(s, x) : s \in {t \in shorter : Len(t) = n - 1}, x \in S}

\* the i-th of 512 keys with pairwise distinct final limbs
DistinctKey(i) == <<i \div 16, i % 16>>

\* long key lists: n copies of one key, and n keys with distinct final limbs
Repeated(key, n) == [i \in 1..n |-> key]
Distinct(n) == [i \in 1..n |-> DistinctKey(i)]
\* n keys alternating between two distinct keys that share their final limb
Colliding(n) == [i \in 1..n |-> IF i % 2 = 1 THEN K1 ELSE K1hi]
BulkCounts == {5, 255, 256, 257}
BulkKeyLists ==
    {Repeated(K0, n) : n \in BulkCounts} \cup {Repeated(K1, n) : n \in BulkCounts}
        \cup {Distinct(n) : n \in BulkCounts} \cup {Colliding(n) : n \in BulkCounts}

KeyLists == SeqsUpTo(KeyPool, MaxKeys) \cup BulkKeyLists

----------------------------------------------------------------------------
(* Proofs and their serialization *)

Ok(v) == [kind |-> "Ok", value |-> <<v>>, error |-> ""]
Err(e) == [kind |-> "Err", value |-> <<>>, error |-> e]
Panic(m) == [kind |-> "Panic", value |-> <<>>, error |-> m]

\* api::serialize_proof / ProofWithVK::serialize: the encoding is tagged with
\* the structure it holds
serialize_proof(proof) == <<"proof", proof>>
SerializeProofWithVK(pvk) == <<"proof_with_vk", pvk>>
Garbage == <<"garbage">>

\* api::deserialize_proof
deserialize_proof(buff) ==
    IF Len(buff) = 2 /\ buff[1] = "proof" THEN Ok(buff[2])
    ELSE Err("deserialization")

\* ProofWithVK::deserialize
DeserializeProofWithVK(buff) ==
    IF Len(buff) = 2 /\ buff[1] = "proof_with_vk" THEN Ok(buff[2])
    ELSE Err("deserialization")

----------------------------------------------------------------------------
(* RevelationRecursiveInput::new *)

\* fault: the entries are keyed by their position in the input, so they come
\* out in the order supplied
CollectByPosition(mapping_keys) ==
    [i \in DOMAIN mapping_keys |-> pack(left_pad32(mapping_keys[i]))]

\* .map(|key| (last limb, packed)).collect::<BTreeMap<_, _>>(): one entry
\* per final limb; BTreeMap::insert replaces an earlier entry with the same
\* key, so the entry kept is that of the last input key with that limb
Collect(mapping_keys) ==
    LET packed == [i \in DOMAIN mapping_keys |-> pack(left_pad32(mapping_keys[i]))]
        kept(k) == CHOOSE i \in DOMAIN packed :
                       /\ Last(packed[i]) = k
                       /\ \A j \in DOMAIN packed : j > i => Last(packed[j]) # k
    IN  [k \in {Last(packed[i]) : i \in DOMAIN packed} |-> packed[kept(k)]]

\* the elements of a set of u32 in ascending order
Ascending(S) ==
    LET rank == [x \in S |-> Cardinality({y \in S : y < x}) + 1]
    IN  [i \in 1..Cardinality(S) |-> CHOOSE x \in S : rank[x] = i]

\* fault: the iterator yields the entries in descending key order
IntoIterDescending(m) ==
    LET order == Ascending(DOMAIN m)
    IN  [i \in 1..Len(order) |-> m[order[Len(order) + 1 - i]]]

\* BTreeMap::into_iter: the values in ascending order of their u32 keys
IntoIter(m) ==
    LET order == Ascending(DOMAIN m)
    IN  [i \in 1..Len(order) |-> m[order[i]]]

\* create_array(|_i| next entry of the iterator, or zeros once it is exhausted)
KeysArray(iter, Lc) ==
    [i \in 1..Lc |-> IF i <= Len(iter) THEN iter[i] ELSE ZeroKey]

\* fault: the capacity is recorded in place of the number of keys
NumEntriesCapacity(mapping_keys, Lc) == Lc

\* let num_entries = mapping_keys.len()
NumEntries(mapping_keys, Lc) == Len(mapping_keys)

\* fault: the assertion admits one key too many
WithinCapacityOffByOne(num_entries, Lc) == num_entries <= Lc + 1

\* assert!(num_entries <= L, ...)
WithinCapacity(num_entries, Lc) == num_entries <= Lc

\* num_entries as u8
AsU8(n) == n % Pow2(NUM_ENTRIES_BITS)

\* fault: the two block numbers are stored in each other's field
MainInputsSwapped(keys, num_entries, query_min_block, query_max_block) ==
    [packed_keys |-> keys,
     num_entries |-> AsU8(num_entries),
     query_min_block_number |-> query_max_block,
     query_max_block_number |-> query_min_block]

\* RevelationCircuit { packed_keys, num_entries, query_min_block_number,
\*                     query_max_block_number }
MainInputs(keys, num_entries, query_min_block, query_max_block) ==
    [packed_keys |-> keys,
     num_entries |-> AsU8(num_entries),
     query_min_block_number |-> query_min_block,
     query_max_block_number |-> query_max_block]

\* the assembler without the ? on deserialize_proof(&block_db_proof): a blob
\* that does not parse is carried into the input as it is
NewIgnoringBlockDbError(Lc, mapping_keys, query_min_block, query_max_block, query2_block_proof, block_db_proof) ==
    LET keys == KeysArray(IntoIter(Collect(mapping_keys)), Lc)
        num_entries == NumEntries(mapping_keys, Lc)
        q == DeserializeProofWithVK(query2_block_proof)
    IN  IF ~WithinCapacity(num_entries, Lc)
            THEN Panic("Number of entries should not exceed fixed parameter L")
        ELSE IF q.kind = "Err" THEN q
        ELSE Ok([logic_inputs |-> MainInputs(keys, num_entries, query_min_block, query_max_block),
                 query2_block_proof |-> q.value[1],
                 block_db_proof |-> block_db_proof])

\* RevelationRecursiveInput::<L>::new: the keys are sorted first, then the
\* count is asserted, then the two blobs are deserialized, query side first
New(Lc, mapping_keys, query_min_block, query_max_block, query2_block_proof, block_db_proof) ==
    LET sorted_keys == Collect(mapping_keys)
        keys == KeysArray(IntoIter(sorted_keys), Lc)
        num_entries == NumEntries(mapping_keys, Lc)
        q == DeserializeProofWithVK(query2_block_proof)
        d == deserialize_proof(block_db_proof)
    IN  IF ~WithinCapacity(num_entries, Lc)
            THEN Panic("Number of entries should not exceed fixed parameter L")
        ELSE IF q.kind = "Err" THEN q
        ELSE IF d.kind = "Err" THEN d
        ELSE Ok([logic_inputs |-> MainInputs(keys, num_entries, query_min_block, query_max_block),
                 query2_block_proof |-> q.value[1],
                 block_db_proof |-> d.value[1]])

----------------------------------------------------------------------------
(* Sub-proofs: what a serialized blob holds once deserialized *)

\* a query2/block proof: the circuit (verifying key) it was produced under,
\* "none" for a proof no circuit produced, and its BlockPublicInputs
QueryProof(circuit, block_number, range, root, digest) ==
    [circuit |-> circuit,
     pi |-> [block_number |-> block_number, range |-> range,
             root |-> root, digest |-> digest]]

\* ProofWithVK { proof, vk }: the proof with the verifying key it claims
ProofWithVK(proof, vk) == [proof |-> proof, vk |-> vk]

\* a block db proof and its BlockDbPublicInputs
BlockDbProof(circuit, root, block_number) ==
    [circuit |-> circuit, pi |-> [root |-> root, block_number |-> block_number]]

\* group_hashing::add_curve_point over map_to_curve_point of each packed key:
\* a commutative sum, i.e. the multiset of the packed keys
Digest(packed_keys) ==
    [p \in {packed_keys[i] : i \in DOMAIN packed_keys} |->
        Cardinality({i \in DOMAIN packed_keys : packed_keys[i] = p})]

\* the digest a query2/block proof over the raw keys exposes
DigestOfKeys(mapping_keys) ==
    Digest([i \in DOMAIN mapping_keys |-> pack(left_pad32(mapping_keys[i]))])

----------------------------------------------------------------------------
(* The assembler as a function of its inputs *)

NoCalls == <<>>
NoWitness == <<>>

SampleQueryBlob ==
    SerializeProofWithVK(ProofWithVK(QueryProof("q1", 2, 2, "r1", DigestOfKeys(<<>>)), "q1"))
SampleDbBlob == serialize_proof(BlockDbProof("ivc", "r1", 3))

QueryBlobs == {Garbage, SampleDbBlob, SampleQueryBlob}
DbBlobs == {Garbage, SampleDbBlob, SampleQueryBlob}

Requests ==
    [mapping_keys : KeyLists,
     query_min_block : {1},
     query_max_block : {2},
     query2_block_proof : QueryBlobs,
     block_db_proof : DbBlobs]

CallNewWith(Lc, r) ==
    New(Lc, r.mapping_keys, r.query_min_block, r.query_max_block,
        r.query2_block_proof, r.block_db_proof)

\* the occupied keys of a canonical output, as raw bytes
CanonicalKeys(input) ==
    [i \in 1..input.logic_inputs.num_entries |->
        unpack(input.logic_inputs.packed_keys[i])]

InitNew ==
    /\ L \in Capacities
    /\ request \in Requests
    /\ assembled = <<>>
    /\ recanon = <<>>
    /\ reordered = <<>>
    /\ params = <<>>
    /\ calls = NoCalls
    /\ pw = NoWitness

\* RevelationRecursiveInput::<L>::new(request)
CallNew ==
    /\ assembled = <<>>
    /\ assembled' = <<CallNewWith(L, request)>>
    /\ UNCHANGED <<L, request, recanon, reordered, params, calls, pw>>

\* RevelationRecursiveInput::<L>::new on the occupied keys of the output
Recanonicalize ==
    /\ assembled # <<>>
    /\ assembled[1].kind = "Ok"
    /\ recanon = <<>>
    /\ recanon' = <<CallNewWith(L, [request EXCEPT
                        !.mapping_keys = CanonicalKeys(assembled[1].value[1])])>>
    /\ UNCHANGED <<L, request, assembled, reordered, params, calls, pw>>

\* the orders in which n keys can be supplied, as maps from position to
\* original position: every order of a short list; of a long one the
\* original, the reverse and the rotation by one
Orders(n) ==
    IF n <= MaxKeys
        THEN {p \in [1..n -> 1..n] : \A i, j \in 1..n : p[i] = p[j] => i = j}
        ELSE {[i \in 1..n |-> i], [i \in 1..n |-> n + 1 - i], [i \in 1..n |-> (i % n) + 1]}

\* RevelationRecursiveInput::<L>::new on the same keys in another order
Reorder ==
    /\ assembled # <<>>
    /\ reordered = <<>>
    /\ \E p \in Orders(Len(request.mapping_keys)) :
          LET keys == [i \in DOMAIN request.mapping_keys |-> request.mapping_keys[p[i]]]
          IN  reordered' = <<keys, CallNewWith(L, [request EXCEPT !.mapping_keys = keys])>>
    /\ UNCHANGED <<L, request, assembled, recanon, params, calls, pw>>

NextNew == CallNew \/ Recanonicalize \/ Reorder

SpecNew == InitNew /\ [][NextNew]_vars

----------------------------------------------------------------------------
(* Parameters::build *)

\* L of the module's unit test (test_revelation_api)
UnitTestL == 2

\* the circuit sets handed to build: the query2/block family and the block db
\* set, which holds the IVC circuit and the dummy one
Query2BlockSet == {"q1", "q2"}
BlockDbCircuitSet == {"ivc", "dummy"}

\* RecursiveCircuitsVerifierGagdet::verify_proof_in_circuit_set: the wires
\* accept a proof of any circuit of the set
verify_proof_in_circuit_set(circuit_set) == circuit_set

\* RecursiveCircuitsVerifierGagdet::verify_proof_fixed_circuit_in_circuit_set:
\* the wires accept a proof of the one given circuit only
verify_proof_fixed_circuit_in_circuit_set(circuit_set, verifier_data) == {verifier_data}

\* fault: the block db wires are built like the query2/block ones
BuildAnyBlockDbCircuit(Lc, query2_block_set, block_db_circuit_set, block_db_verifier_data) ==
    LET query2_block_accepts == verify_proof_in_circuit_set(query2_block_set)
        block_db_accepts == verify_proof_in_circuit_set(block_db_circuit_set)
    IN  [query2_block_circuit_set |-> query2_block_set,
         circuit_data |-> [num_keys |-> Lc,
                           query2_block |-> query2_block_accepts,
                           block_db |-> block_db_accepts]]

\* Parameters::<BLOCK_DB_DEPTH, L>::build: the compiled circuit verifies a
\* query2/block proof of any circuit of the set, a block db proof of the fixed
\* circuit, and the revelation logic over L keys
build(Lc, query2_block_set, block_db_circuit_set, block_db_verifier_data) ==
    LET query2_block_accepts == verify_proof_in_circuit_set(query2_block_set)
        block_db_accepts ==
            verify_proof_fixed_circuit_in_circuit_set(block_db_circuit_set, block_db_verifier_data)
    IN  [query2_block_circuit_set |-> query2_block_set,
         circuit_data |-> [num_keys |-> Lc,
                           query2_block |-> query2_block_accepts,
                           block_db |-> block_db_accepts]]

----------------------------------------------------------------------------
(* Parameters::generate_proof and verify_proof *)

\* PartialWitness::new()
EmptyWitness == [block_db |-> <<>>, query2_block |-> <<>>, revelation |-> <<>>]

\* pw.set_proof_with_pis_target(&self.block_db, &inputs.block_db_proof)
set_proof_with_pis_target(w, proof) == [w EXCEPT !.block_db = <<proof>>]

\* RecursiveCircuitsVerifierTarget::set_target: fails unless the verifying
\* key is located in the circuit set
set_target(w, circuit_set, proof, vd) ==
    IF vd \in circuit_set
        THEN Ok([w EXCEPT !.query2_block = <<ProofWithVK(proof, vd)>>])
    ELSE Err("set_target")

\* RevelationCircuit::assign
assign(w, logic_inputs) == [w EXCEPT !.revelation = <<logic_inputs>>]

\* the digest the circuit recomputes from the revealed keys: the packed keys
\* at positions below num_entries
RevealedDigest(logic) ==
    Digest([i \in 1..logic.num_entries |-> logic.packed_keys[i]])

\* the lower end of the range a query2/block proof claims
ClaimedMinBlock(qpi) == qpi.block_number - qpi.range + 1

\* RevelationCircuit::build: the constraints binding the logic inputs to the
\* public inputs of the two verified proofs
LogicSatisfied(logic, qpi, dbpi) ==
    /\ RevealedDigest(logic) = qpi.digest
    /\ logic.query_max_block_number = qpi.block_number
    /\ logic.query_min_block_number = ClaimedMinBlock(qpi)
    /\ qpi.root = dbpi.root
    /\ dbpi.block_number >= qpi.block_number

\* the whole statement of the revelation circuit over a complete witness
Satisfied(circuit_data, w) ==
    LET db == w.block_db[1]
        q == w.query2_block[1]
        logic == w.revelation[1]
    IN  /\ db.circuit \in circuit_data.block_db
        /\ q.vk \in circuit_data.query2_block
        /\ q.proof.circuit = q.vk
        /\ Len(logic.packed_keys) = circuit_data.num_keys
        /\ LogicSatisfied(logic, q.proof.pi, db.pi)

\* RevelationPublicInputs of a proof
PublicInputs(w) ==
    [packed_keys |-> w.revelation[1].packed_keys,
     num_entries |-> w.revelation[1].num_entries,
     min_block |-> w.revelation[1].query_min_block_number,
     max_block |-> w.revelation[1].query_max_block_number,
     block_db |-> w.block_db[1].pi,
     query2_block |-> w.query2_block[1].proof.pi]

\* CircuitData::prove
prove(circuit_data, w) ==
    IF w.block_db = <<>> \/ w.query2_block = <<>> \/ w.revelation = <<>>
        THEN Err("witness not fully assigned")
    ELSE IF ~Satisfied(circuit_data, w) THEN Err("unsatisfiable")
    ELSE Ok([circuit |-> circuit_data, pi |-> PublicInputs(w)])

\* CircuitData::verify
verify(circuit_data, proof) ==
    IF proof.circuit = circuit_data THEN Ok("verified") ELSE Err("verification")

\* fault: one PartialWitness serves every call
SharedWitness(c) == 1

\* let mut pw = PartialWitness::new(): the witness is a local of the call
WitnessOf(c) == c

\* fault: a failed generate_proof_internal still yields serialized bytes
GenerateProofResultUnchecked(internal) ==
    IF internal.kind = "Err"
        THEN Ok(serialize_proof([circuit |-> [num_keys |-> 0, query2_block |-> {}, block_db |-> {}],
                                 pi |-> <<>>]))
    ELSE Ok(serialize_proof(internal.value[1]))

\* generate_proof: let proof = self.generate_proof_internal(inputs)?;
\*                 serialize_proof(&proof)
GenerateProofResult(internal) ==
    IF internal.kind = "Err" THEN internal
    ELSE Ok(serialize_proof(internal.value[1]))

\* verify_proof: let proof = deserialize_proof(&proof)?;
\*               self.circuit_data.verify(proof)
verify_proof(p, bytes) ==
    LET d == deserialize_proof(bytes)
    IN  IF d.kind = "Err" THEN d ELSE verify(p.circuit_data, d.value[1])

----------------------------------------------------------------------------
(* Requests to the orchestrator *)

\* most calls in flight at once
MaxCalls == 2

MakeRequest(mapping_keys, query_min_block, query_max_block, q, db) ==
    [mapping_keys |-> mapping_keys,
     query_min_block |-> query_min_block,
     query_max_block |-> query_max_block,
     query2_block_proof |-> SerializeProofWithVK(q),
     block_db_proof |-> serialize_proof(db)]

\* key lists handed to new for L = 2
GenKeyLists ==
    {<<>>, <<K1>>, <<K0, K0>>, <<K1, K1>>, <<K256, K1>>, <<K1, K256>>,
     <<K1, K1hi>>, <<K0hi, K1>>}

\* key lists whose digest the query2/block proof of a request over ks may
\* expose: ks itself, two canonical arrays after merging, and another key
ProofKeyLists(ks) == {ks, <<K1, K0>>, <<K1hi, K0>>, <<K256>>}

\* <<circuit that produced the proof, verifying key it comes with>>: two
\* members of the set, a circuit outside it, a proof no circuit produced
QueryCircuitChoices == {<<"q1", "q1">>, <<"q2", "q2">>, <<"qx", "qx">>, <<"none", "q1">>}

\* <<block number, range>> of the query2/block proof
QueryRangeChoices == {<<2, 2>>, <<2, 1>>, <<3, 3>>}

RequestsOver(ks) ==
    {MakeRequest(ks, 1, 2,
                 ProofWithVK(QueryProof(qc[1], br[1], br[2], root, DigestOfKeys(pk)), qc[2]),
                 BlockDbProof(dbc, "r1", last)) :
        pk \in ProofKeyLists(ks), qc \in QueryCircuitChoices,
        br \in QueryRangeChoices, root \in {"r1", "r2"},
        dbc \in BlockDbCircuitSet \cup {"none"}, last \in 1..3}

WideRequests == UNION {RequestsOver(ks) : ks \in GenKeyLists}

\* a consistent request, and requests that each break one check
ConcurrentRequests ==
    {MakeRequest(<<K256, K1>>, 1, 2,
                 ProofWithVK(QueryProof("q1", 2, 2, "r1", DigestOfKeys(<<K1, K256>>)), "q1"),
                 BlockDbProof("ivc", "r1", 3)),
     MakeRequest(<<K1>>, 1, 2,
                 ProofWithVK(QueryProof("q2", 2, 2, "r1", DigestOfKeys(<<K1>>)), "q2"),
                 BlockDbProof("ivc", "r1", 2)),
     MakeRequest(<<K1>>, 1, 2,
                 ProofWithVK(QueryProof("q1", 2, 2, "r1", DigestOfKeys(<<K256>>)), "q1"),
                 BlockDbProof("ivc", "r1", 3)),
     MakeRequest(<<K1>>, 1, 2,
                 ProofWithVK(QueryProof("q1", 2, 2, "r1", DigestOfKeys(<<K1>>)), "q1"),
                 BlockDbProof("dummy", "r1", 3)),
     MakeRequest(<<K1>>, 1, 2,
                 ProofWithVK(QueryProof("qx", 2, 2, "r1", DigestOfKeys(<<K1>>)), "qx"),
                 BlockDbProof("ivc", "r1", 3)),
     MakeRequest(<<K1>>, 1, 2,
                 ProofWithVK(QueryProof("q1", 2, 2, "r1", DigestOfKeys(<<K1>>)), "q1"),
                 BlockDbProof("ivc", "r1", 1))}

\* revelation proof bytes made under other Parameters
ForeignProofBytes ==
    serialize_proof([circuit |-> [num_keys |-> 1, query2_block |-> {"q1"}, block_db |-> {"ivc"}],
                     pi |-> <<>>])

----------------------------------------------------------------------------
(* Calls on one shared Parameters object *)

IdleCall ==
    [pc |-> "idle", op |-> "none", req |-> <<>>, bytes |-> <<>>, new |-> <<>>,
     internal |-> <<>>, result |-> <<>>, verified |-> <<>>, overlapped |-> FALSE]

InFlight(c) == calls[c].pc \notin {"idle", "done"}

Input(c) == calls[c].new[1].value[1]

\* Parameters::build(query2_block_set, block_db_circuit_set, block_db_verifier_data)
Build ==
    /\ params = <<>>
    /\ \E vk \in BlockDbCircuitSet :
          params' = <<build(L, Query2BlockSet, BlockDbCircuitSet, vk)>>
    /\ UNCHANGED <<L, request, assembled, recanon, reordered, calls, pw>>

CanStart(c) == params # <<>> /\ calls[c].pc = "idle"

\* the caller assembles the input of a generate_proof call from request r
AssembleInput(c, r) ==
    /\ LET n == CallNewWith(L, r)
       IN  calls' = [calls EXCEPT ![c] =
               [@ EXCEPT !.pc = IF n.kind = "Ok" THEN "new_witness" ELSE "done",
                         !.op = "generate",
                         !.req = <<r>>,
                         !.new = <<n>>,
                         !.overlapped = \E d \in DOMAIN calls : d # c /\ InFlight(d)]]
    /\ UNCHANGED <<L, request, assembled, recanon, reordered, params, pw>>

\* a caller starts a generate_proof call with one of the requests
StartNew(c, requests) ==
    /\ CanStart(c)
    /\ \E r \in requests : AssembleInput(c, r)

\* let mut pw = PartialWitness::new();
NewWitness(c) ==
    /\ calls[c].pc = "new_witness"
    /\ pw' = [pw EXCEPT ![WitnessOf(c)] = EmptyWitness]
    /\ calls' = [calls EXCEPT ![c].pc = "assign_block_db"]
    /\ UNCHANGED <<L, request, assembled, recanon, reordered, params>>

\* pw.set_proof_with_pis_target(&self.block_db, &inputs.block_db_proof);
AssignBlockDb(c) ==
    /\ calls[c].pc = "assign_block_db"
    /\ pw' = [pw EXCEPT ![WitnessOf(c)] =
                 set_proof_with_pis_target(@, Input(c).block_db_proof)]
    /\ calls' = [calls EXCEPT ![c].pc = "assign_query2_block"]
    /\ UNCHANGED <<L, request, assembled, recanon, reordered, params>>

\* self.query2_block.set_target(&mut pw, &self.query2_block_circuit_set, &proof, &vd)?;
AssignQuery2Block(c) ==
    /\ calls[c].pc = "assign_query2_block"
    /\ LET r == set_target(pw[WitnessOf(c)], params[1].query2_block_circuit_set,
                           Input(c).query2_block_proof.proof, Input(c).query2_block_proof.vk)
       IN  IF r.kind = "Ok"
               THEN /\ pw' = [pw EXCEPT ![WitnessOf(c)] = r.value[1]]
                    /\ calls' = [calls EXCEPT ![c].pc = "assign_logic"]
           ELSE /\ pw' = pw
                /\ calls' = [calls EXCEPT ![c].pc = "return", ![c].internal = <<r>>]
    /\ UNCHANGED <<L, request, assembled, recanon, reordered, params>>

\* inputs.logic_inputs.assign(&mut pw, &self.revelation);
AssignLogic(c) ==
    /\ calls[c].pc = "assign_logic"
    /\ pw' = [pw EXCEPT ![WitnessOf(c)] = assign(@, Input(c).logic_inputs)]
    /\ calls' = [calls EXCEPT ![c].pc = "prove"]
    /\ UNCHANGED <<L, request, assembled, recanon, reordered, params>>

\* let proof = self.circuit_data.prove(pw)?;
Prove(c) ==
    /\ calls[c].pc = "prove"
    /\ calls' = [calls EXCEPT ![c].pc = "return",
                              ![c].internal = <<prove(params[1].circuit_data, pw[WitnessOf(c)])>>]
    /\ UNCHANGED <<L, request, assembled, recanon, reordered, params, pw>>

\* generate_proof returns: the error of generate_proof_internal, or the
\* serialized proof
Return(c) ==
    /\ calls[c].pc = "return"
    /\ LET res == GenerateProofResult(calls[c].internal[1])
       IN  calls' = [calls EXCEPT ![c].result = <<res>>,
                                  ![c].pc = IF res.kind = "Ok" THEN "generated" ELSE "done"]
    /\ UNCHANGED <<L, request, assembled, recanon, reordered, params, pw>>

\* params.verify_proof(proof) on the bytes generate_proof returned
VerifyGenerated(c) ==
    /\ calls[c].pc = "generated"
    /\ calls' = [calls EXCEPT ![c].pc = "done",
                              ![c].bytes = calls[c].result[1].value,
                              ![c].verified =
                                  <<verify_proof(params[1], calls[c].result[1].value[1])>>]
    /\ UNCHANGED <<L, request, assembled, recanon, reordered, params, pw>>

\* bytes a caller may hand to verify_proof
VerifiableBytes ==
    {Garbage, ForeignProofBytes}
        \cup {calls[d].result[1].value[1] :
                 d \in {e \in DOMAIN calls : calls[e].result # <<>> /\ calls[e].result[1].kind = "Ok"}}

\* a separate params.verify_proof(bytes) call
VerifyCall(c) ==
    /\ CanStart(c)
    /\ \E b \in VerifiableBytes :
          calls' = [calls EXCEPT ![c] =
              [@ EXCEPT !.pc = "done",
                        !.op = "verify",
                        !.bytes = <<b>>,
                        !.verified = <<verify_proof(params[1], b)>>,
                        !.overlapped = \E d \in DOMAIN calls : d # c /\ InFlight(d)]]
    /\ UNCHANGED <<L, request, assembled, recanon, reordered, params, pw>>

GenerateStep(c) ==
    \/ NewWitness(c)
    \/ AssignBlockDb(c)
    \/ AssignQuery2Block(c)
    \/ AssignLogic(c)
    \/ Prove(c)
    \/ Return(c)
    \/ VerifyGenerated(c)

NoRequest ==
    [mapping_keys |-> <<>>, query_min_block |-> 0, query_max_block |-> 0,
     query2_block_proof |-> Garbage, block_db_proof |-> Garbage]

InitCalls(slots) ==
    /\ L = UnitTestL
    /\ request = NoRequest
    /\ assembled = <<>>
    /\ recanon = <<>>
    /\ reordered = <<>>
    /\ params = <<>>
    /\ calls = [c \in slots |-> IdleCall]
    /\ pw = [c \in slots |-> EmptyWitness]

\* one caller, any request
Init == InitCalls({1})

Next ==
    \/ Build
    \/ StartNew(1, WideRequests)
    \/ GenerateStep(1)
    \/ VerifyCall(1)

Spec == Init /\ [][Next]_vars

\* MaxCalls callers sharing the Parameters
InitConcurrent == InitCalls(1..MaxCalls)

NextConcurrent ==
    \/ Build
    \/ \E c \in 1..MaxCalls :
          \/ StartNew(c, ConcurrentRequests)
          \/ GenerateStep(c)
          \/ VerifyCall(c)

SpecConcurrent == InitConcurrent /\ [][NextConcurrent]_vars

----------------------------------------------------------------------------
(* Properties of the assembler (SpecNew) *)

Called == assembled # <<>>
Outcome == assembled[1]
Produced == Outcome.value[1]
NumKeys == Len(request.mapping_keys)
BlobsWellFormed ==
    /\ request.query2_block_proof = SampleQueryBlob
    /\ request.block_db_proof = SampleDbBlob

\* the final packed limbs of the keys supplied
FinalLimbs == {Last(pack(left_pad32(request.mapping_keys[i]))) : i \in 1..NumKeys}

\* C1 as stated: a call of new with more than L mapping keys ends with an
\* error value returned to the caller, and no input is produced.
C1_Original ==
    (Called /\ NumKeys > L) =>
        /\ Outcome.kind = "Err"
        /\ Outcome.value = <<>>

\* C1, amended: a call of new with more than L mapping keys panics on the
\* capacity assertion (no Err value is returned), whatever the two blobs
\* hold, and produces no input at all.
C1_TooManyKeysRejected ==
    (Called /\ NumKeys > L) =>
        /\ Outcome.kind = "Panic"
        /\ Outcome.value = <<>>

C1_Witness ==
    /\ Called
    /\ NumKeys = L + 1
    /\ BlobsWellFormed
    /\ Outcome.kind = "Panic"

C3_Original ==
    (Called /\ Outcome.kind = "Ok") =>
        /\ Produced.logic_inputs.num_entries = NumKeys
        /\ Produced.logic_inputs.num_entries <= L

\* the occupancy recorded is the number of keys supplied modulo 256
OccupancyIsCountMod256 ==
    (Called /\ Outcome.kind = "Ok") =>
        Produced.logic_inputs.num_entries = NumKeys % 256

QueryBlobParsed == DeserializeProofWithVK(request.query2_block_proof)
BlockDbBlobParsed == deserialize_proof(request.block_db_proof)

\* C11: a call of new with at most L keys returns a deserialization error
\* and no input whenever the query-side blob or the database-side blob does
\* not parse, and returns an input, holding the two parsed proofs, only when
\* both blobs parse.
C11_DeserializationErrors ==
    (Called /\ NumKeys <= L) =>
        /\ (QueryBlobParsed.kind = "Err" \/ BlockDbBlobParsed.kind = "Err") =>
              /\ Outcome.kind = "Err"
              /\ Outcome.error = "deserialization"
              /\ Outcome.value = <<>>
        /\ Outcome.kind = "Ok" =>
              /\ QueryBlobParsed.kind = "Ok"
              /\ BlockDbBlobParsed.kind = "Ok"
              /\ Produced.query2_block_proof = QueryBlobParsed.value[1]
              /\ Produced.block_db_proof = BlockDbBlobParsed.value[1]
        /\ Outcome.kind # "Panic"

C11_Witness ==
    /\ Called
    /\ NumKeys = L
    /\ request.query2_block_proof = SampleQueryBlob
    /\ request.block_db_proof = SampleQueryBlob
    /\ Outcome.kind = "Err"
    /\ Outcome.error = "deserialization"

\* both blobs parse and the input holds the two parsed proofs
BothBlobsParse ==
    /\ Called
    /\ NumKeys = L
    /\ BlobsWellFormed
    /\ Outcome.kind = "Ok"
    /\ Produced.block_db_proof = BlockDbProof("ivc", "r1", 3)

\* the packed form of the i-th key supplied
PackedInput(i) == pack(left_pad32(request.mapping_keys[i]))

\* two distinct keys supplied share their final packed limb
SomeKeysCollide ==
    \E i, j \in 1..NumKeys :
        PackedInput(i) # PackedInput(j) /\ Last(PackedInput(i)) = Last(PackedInput(j))

\* the last key supplied whose final limb is limb
LastWith(limb) ==
    PackedInput(CHOOSE i \in 1..NumKeys :
        /\ Last(PackedInput(i)) = limb
        /\ \A j \in (i + 1)..NumKeys : Last(PackedInput(j)) # limb)

\* the entries of the output written from the sorted keys hold, for every
\* final limb supplied, exactly one key, the last one supplied with that limb
KeepsLastPerFinalLimb ==
    LET out == Produced.logic_inputs.packed_keys
        d == Cardinality(FinalLimbs)
    IN  \A limb \in FinalLimbs :
            /\ Cardinality({i \in 1..d : Last(out[i]) = limb}) = 1
            /\ \A i \in 1..d : Last(out[i]) = limb => out[i] = LastWith(limb)

\* C12 as stated: when distinct keys share a final limb, one of them is kept,
\* the last in input order, and the occupancy still counts every key
\* supplied; keys with pairwise distinct final limbs are all kept, once each.
C12_Original ==
    (Called /\ Outcome.kind = "Ok") =>
        /\ SomeKeysCollide =>
              /\ KeepsLastPerFinalLimb
              /\ Produced.logic_inputs.num_entries = NumKeys
        /\ Cardinality(FinalLimbs) = NumKeys =>
              /\ KeepsLastPerFinalLimb
              /\ \A k \in 1..NumKeys :
                    Cardinality({i \in 1..NumKeys :
                        Produced.logic_inputs.packed_keys[i] = PackedInput(k)}) = 1

\* the part of C12 about the key array: of the keys sharing a final limb the
\* last supplied is kept, and the occupancy is the count of all keys supplied
\* as long as that count fits the u8
LastWinsOccupancyCountsAllBelow256 ==
    (Called /\ Outcome.kind = "Ok") =>
        /\ KeepsLastPerFinalLimb
        /\ NumKeys < Pow2(NUM_ENTRIES_BITS) => Produced.logic_inputs.num_entries = NumKeys

\* three keys, the first and the last distinct with one final limb: the last
\* is kept, the occupancy is 3
LastOfCollidingKept ==
    /\ Called
    /\ Outcome.kind = "Ok"
    /\ request.mapping_keys = <<K1, K0, K1hi>>
    /\ Produced.logic_inputs.packed_keys[2] = pack(left_pad32(K1hi))
    /\ Produced.logic_inputs.num_entries = 3

\* new on the reordered keys returned the packed key array and the
\* occupancy it returned on the keys as first supplied
SameCanonicalKeySet ==
    /\ reordered[2].kind = "Ok"
    /\ reordered[2].value[1].logic_inputs.packed_keys = Produced.logic_inputs.packed_keys
    /\ reordered[2].value[1].logic_inputs.num_entries = Produced.logic_inputs.num_entries

\* C13 as stated: for at most L keys, new returns the same packed key array
\* and the same occupancy in whatever order the keys are supplied.
C13_Original ==
    (reordered # <<>> /\ NumKeys <= L /\ Outcome.kind = "Ok") => SameCanonicalKeySet

\* C13, amended: for at most L keys of which any two sharing their final
\* packed limb are equal, new returns the same packed key array and the same
\* occupancy in whatever order the keys are supplied.
C13_OrderIndependentWithoutCollisions ==
    (reordered # <<>> /\ NumKeys <= L /\ Outcome.kind = "Ok" /\ ~SomeKeysCollide) =>
        SameCanonicalKeySet

C13_Witness ==
    /\ reordered # <<>>
    /\ NumKeys = 3
    /\ NumKeys <= L
    /\ Cardinality(FinalLimbs) = 2
    /\ ~SomeKeysCollide
    /\ reordered[1][1] = request.mapping_keys[3]
    /\ reordered[1][1] # request.mapping_keys[1]
    /\ reordered[1][3] # request.mapping_keys[3]
    /\ Outcome.kind = "Ok"
    /\ SameCanonicalKeySet
    /\ Last(Produced.logic_inputs.packed_keys[1]) < Last(Produced.logic_inputs.packed_keys[2])

\* two distinct keys with one final limb, supplied in the two orders: each
\* order keeps another key
OrderDecidesKeptKey ==
    /\ reordered # <<>>
    /\ request.mapping_keys = <<K1, K1hi>>
    /\ reordered[1] = <<K1hi, K1>>
    /\ Outcome.kind = "Ok"
    /\ reordered[2].kind = "Ok"
    /\ Produced.logic_inputs.packed_keys[1] = pack(left_pad32(K1hi))
    /\ reordered[2].value[1].logic_inputs.packed_keys[1] = pack(left_pad32(K1))

\* C14 as stated: for every L and every number of keys that passes the size
\* check, the cast to u8 leaves the count as it is, and the occupancy stored
\* is the count.
C14_Original ==
    (Called /\ WithinCapacity(NumEntries(request.mapping_keys, L), L)) =>
        /\ AsU8(NumKeys) = NumKeys
        /\ Outcome.kind = "Ok" => Produced.logic_inputs.num_entries = NumKeys

\* with L below 256 the count passes the cast unchanged
NoWrapWithCapacityBelow256 ==
    (Called /\ L < Pow2(NUM_ENTRIES_BITS) /\ Outcome.kind = "Ok") =>
        /\ AsU8(NumKeys) = NumKeys
        /\ Produced.logic_inputs.num_entries = NumKeys

\* 256 keys with distinct final limbs fill the key array of L = 256 and are
\* recorded as an occupancy of 0
WrapsAtCapacity256 ==
    /\ Called
    /\ L = 256
    /\ NumKeys = 256
    /\ Outcome.kind = "Ok"
    /\ Produced.logic_inputs.num_entries = 0
    /\ Produced.logic_inputs.packed_keys[256] # ZeroKey

----------------------------------------------------------------------------
(* Properties of generate_proof and verify_proof (Spec, SpecConcurrent) *)

Req(c) == calls[c].req[1]
QueryOf(c) == Req(c).query2_block_proof[2]
BlockDbOf(c) == Req(c).block_db_proof[2]

Returned(c) == calls[c].op = "generate" /\ calls[c].result # <<>>
Finished(c) == calls[c].op = "generate" /\ calls[c].pc = "done"
Failed(c) == calls[c].result[1].kind = "Err" /\ calls[c].result[1].value = <<>>
Succeeded(c) == calls[c].result # <<>> /\ calls[c].result[1].kind = "Ok"

\* the Parameters were built with block db verifying key vk
BuiltWith(vk) == params = <<build(L, Query2BlockSet, BlockDbCircuitSet, vk)>>

\* once built, the Parameters never change
ParamsImmutable == [][params # <<>> => params' = params]_vars

\* the query2/block proof is a genuine member of the set given to build
GenuineQuery(c) ==
    /\ QueryOf(c).proof.circuit = QueryOf(c).vk
    /\ QueryOf(c).vk \in Query2BlockSet

\* the block range of the request is the one the query2/block proof claims
RangeMatches(c) ==
    /\ QueryOf(c).proof.pi.block_number = Req(c).query_max_block
    /\ ClaimedMinBlock(QueryOf(c).proof.pi) = Req(c).query_min_block

RootMatches(c) == QueryOf(c).proof.pi.root = BlockDbOf(c).pi.root

Fresh(c) == BlockDbOf(c).pi.block_number >= Req(c).query_max_block

\* the sub-proofs are genuine and consistent with the keys supplied
Consistent(c, vk) ==
    /\ Len(Req(c).mapping_keys) <= L
    /\ GenuineQuery(c)
    /\ BlockDbOf(c).circuit = vk
    /\ QueryOf(c).proof.pi.digest = DigestOfKeys(Req(c).mapping_keys)
    /\ RangeMatches(c)
    /\ RootMatches(c)
    /\ Fresh(c)

\* C5 as stated: with at most L keys and genuine, mutually consistent
\* sub-proofs, new then generate_proof succeed and verify_proof accepts the
\* returned bytes.
C5_Original ==
    \A c \in DOMAIN calls : \A vk \in BlockDbCircuitSet :
        (BuiltWith(vk) /\ Finished(c) /\ Consistent(c, vk)) =>
            /\ calls[c].new[1].kind = "Ok"
            /\ Succeeded(c)
            /\ calls[c].verified # <<>>
            /\ calls[c].verified[1].kind = "Ok"

\* the final packed limbs of the keys of call c
FinalLimbsOf(c) ==
    {Last(pack(left_pad32(Req(c).mapping_keys[i]))) : i \in DOMAIN Req(c).mapping_keys}

\* the same statement for keys with pairwise distinct final limbs
ConsistentDistinctLimbsSucceed ==
    \A c \in DOMAIN calls : \A vk \in BlockDbCircuitSet :
        (BuiltWith(vk) /\ Finished(c) /\ Consistent(c, vk)
            /\ Cardinality(FinalLimbsOf(c)) = Len(Req(c).mapping_keys)) =>
                /\ Succeeded(c)
                /\ calls[c].verified # <<>>
                /\ calls[c].verified[1].kind = "Ok"

C6_Inv ==
    \A c \in DOMAIN calls : \A vk \in BlockDbCircuitSet :
        (BuiltWith(vk) /\ Returned(c) /\ BlockDbOf(c).circuit # vk) => Failed(c)

\* C6: generate_proof fails for every block db proof produced under a
\* verifying key other than the one given to build, members of the block db
\* circuit set included, and no call changes the Parameters built.
C6_OnlyFixedBlockDbKey == []C6_Inv /\ ParamsImmutable

C6_Witness ==
    \E c \in DOMAIN calls : \E vk \in BlockDbCircuitSet :
        /\ BuiltWith(vk)
        /\ Finished(c)
        /\ BlockDbOf(c).circuit \in BlockDbCircuitSet \ {vk}
        /\ Consistent(c, BlockDbOf(c).circuit)
        /\ Len(Req(c).mapping_keys) = 2
        /\ Cardinality(FinalLimbsOf(c)) = 2
        /\ Failed(c)

\* C7 as stated: generate_proof fails whenever the digest of the query2/block
\* proof differs from the digest of the keys supplied to new.
C7_Original ==
    \A c \in DOMAIN calls :
        (Returned(c) /\ QueryOf(c).proof.pi.digest # DigestOfKeys(Req(c).mapping_keys))
            => Failed(c)

\* every check of generate_proof but the freshness one passes
AllButFreshness(c, vk) ==
    /\ GenuineQuery(c)
    /\ BlockDbOf(c).circuit = vk
    /\ QueryOf(c).proof.pi.digest =
           Digest([i \in 1..AsU8(Len(Req(c).mapping_keys)) |->
                      KeysArray(IntoIter(Collect(Req(c).mapping_keys)), L)[i]])
    /\ RangeMatches(c)
    /\ RootMatches(c)

\* C8: generate_proof fails whenever the query max block number exceeds the
\* last block number of the block db proof; when it does not, the call
\* succeeds exactly when every other check passes.
C8_Freshness ==
    \A c \in DOMAIN calls : \A vk \in BlockDbCircuitSet :
        (BuiltWith(vk) /\ Returned(c)) =>
            /\ (~Fresh(c) \/ QueryOf(c).proof.pi.block_number > BlockDbOf(c).pi.block_number)
                   => Failed(c)
            /\ Fresh(c) => (Succeeded(c) <=> AllButFreshness(c, vk))

C8_Witness ==
    \E c \in DOMAIN calls : \E vk \in BlockDbCircuitSet :
        /\ BuiltWith(vk)
        /\ Finished(c)
        /\ AllButFreshness(c, vk)
        /\ Len(Req(c).mapping_keys) = 2
        /\ BlockDbOf(c).pi.block_number < Req(c).query_max_block
        /\ Failed(c)

\* the boundary: a block db proof whose last block is the query max block
FreshAtEqualBlocks ==
    \E c \in DOMAIN calls : \E vk \in BlockDbCircuitSet :
        /\ BuiltWith(vk)
        /\ Finished(c)
        /\ BlockDbOf(c).pi.block_number = Req(c).query_max_block
        /\ Succeeded(c)

C9_Inv ==
    \A c \in DOMAIN calls :
        calls[c].op = "generate" =>
            /\ calls[c].pc \notin {"generated", "done"} => calls[c].result = <<>>
            /\ calls[c].result # <<>> =>
                  LET res == calls[c].result[1]
                      int == calls[c].internal[1]
                  IN  \/ /\ res.kind = "Ok"
                         /\ int.kind = "Ok"
                         /\ res.value = <<serialize_proof(int.value[1])>>
                         /\ int.value[1].circuit = params[1].circuit_data
                         /\ int.value[1].pi = PublicInputs(pw[c])
                      \/ /\ res.kind = "Err"
                         /\ res.value = <<>>
                         /\ int.kind = "Err"

GenerateProofAlone(p, inputs) ==
    LET w1 == set_proof_with_pis_target(EmptyWitness, inputs.block_db_proof)
        t == set_target(w1, p.query2_block_circuit_set,
                        inputs.query2_block_proof.proof, inputs.query2_block_proof.vk)
    IN  IF t.kind = "Err" THEN GenerateProofResult(t)
        ELSE GenerateProofResult(prove(p.circuit_data, assign(t.value[1], inputs.logic_inputs)))

C10_Inv ==
    \A c \in DOMAIN calls :
        calls[c].pc = "done" =>
            /\ calls[c].op = "generate" =>
                  /\ calls[c].new = <<CallNewWith(L, Req(c))>>
                  /\ calls[c].new[1].kind = "Ok" =>
                        LET alone == GenerateProofAlone(params[1], Input(c))
                        IN  /\ calls[c].result = <<alone>>
                            /\ alone.kind = "Ok" =>
                                  calls[c].verified = <<verify_proof(params[1], alone.value[1])>>
            /\ calls[c].op = "verify" =>
                  calls[c].verified = <<verify_proof(params[1], calls[c].bytes[1])>>

\* C10: however the steps of concurrent generate_proof and verify_proof calls
\* on one Parameters object interleave, the Parameters stay as built and each
\* call ends with the outcome it has when run alone.
C10_CallsIndependent == []C10_Inv /\ ParamsImmutable

C10_Witness ==
    /\ Finished(1) /\ Finished(2)
    /\ calls[2].overlapped
    /\ Req(1) # Req(2)
    /\ Succeeded(1)
    /\ calls[1].verified[1].kind = "Ok"
    /\ Failed(2)
    /\ pw[2].revelation # <<>>

====
